---- MODULE Spec2Model ----
(* Finch MCP server: the build / push tools and ensure_vm_running of       *)
(* awslabs/finch_mcp_server/server.py, as a state machine over the         *)
(* external collaborators named in the imports of server.py (finch CLI,    *)
(* VM, credential-helper configuration).                                   *)
EXTENDS Integers, Sequences, FiniteSets, TLC

VARIABLES
    platform,   \* sys.platform of the host: "linux" (native) or "darwin"
    vm,         \* state of the external Finch VM
    helper,     \* TRUE iff the ECR credential-helper entry is configured
    calls,      \* number of invocations started so far
    call,       \* call[p]: the frame (position and locals) of caller p
    log,        \* the log record at the handler's SensitiveDataFilter
    push,       \* one run of is_ecr_repository and push_image on an image
    logcfg      \* the module-level selection of the log level

mainvars == <<platform, vm, helper, calls, call>>
others == <<log, push, logcfg>>
vars == <<mainvars, others>>

(* ------------------------------ bounds -------------------------------- *)
MaxCalls == 3
MaxReturnCode == 1

Procs == {1, 2}
Tools == {"build", "push"}
Kinds == Tools \cup {"ensure", "create"}
VmStates == {"nonexistent", "stopped", "running", "unknown"}
ReturnCodes == 0..MaxReturnCode
Faults == {"boom", "oops"}

(* ------------------------- results (dicts) ---------------------------- *)
format_result(status, message) ==
    [status |-> status, message |-> message, extra |-> ""]

Result(d) == [status |-> d.status, message |-> d.message]

NoResult == [status |-> "none", message |-> "", extra |-> ""]
NoReturn == [status |-> "none", message |-> ""]
NoStatus == [returncode |-> -1, nonexistent |-> FALSE, stopped |-> FALSE,
             running |-> FALSE]
NoConfig == [status |-> "none", message |-> "", extra |-> "",
             has_changed |-> FALSE, changed |-> FALSE]

\* What a collaborator's command may return: one success dict, or an error
\* dict with or without captured stderr.
CmdSuccess(name) == [status |-> "success", message |-> name \o " ok", extra |-> ""]
CmdErrors(name) ==
    {[status |-> "error", message |-> name \o " failed", extra |-> e] :
        e \in {"", "stderr"}}
CmdResults(name) == {CmdSuccess(name)} \cup CmdErrors(name)

\* Raw outputs of the status command for a VM in state v: any output that
\* carries the marker of v, none of an earlier-checked state.
StatusOutputs(v) ==
    {s \in [returncode : ReturnCodes, nonexistent : BOOLEAN,
            stopped : BOOLEAN, running : BOOLEAN] :
        CASE v = "nonexistent" -> s.nonexistent
          [] v = "stopped"     -> ~s.nonexistent /\ s.stopped
          [] v = "running"     -> ~s.nonexistent /\ ~s.stopped /\ s.running
          [] OTHER             -> ~s.nonexistent /\ ~s.stopped /\ ~s.running}

is_vm_nonexistent(s) == s.nonexistent
is_vm_stopped(s) == s.stopped
is_vm_running(s) == s.running

(* ------------------------------ frames -------------------------------- *)
IdleFrame ==
    [pc |-> "idle", kind |-> "ensure", ecr |-> FALSE, cmds |-> <<>>,
     finch_install_status |-> NoResult, is_ecr |-> FALSE,
     config_result |-> NoConfig, changed |-> FALSE, stop_result |-> NoResult,
     status_result |-> NoStatus, result |-> NoResult, vm_status |-> NoResult,
     ret |-> NoReturn, e |-> ""]

Issue(f, name) == Append(f.cmds, name)

ActCmd(kind) == IF kind = "build" THEN "build" ELSE "push"
ErrPrefix(kind) ==
    IF kind = "build" THEN "Error building Docker image: "
    ELSE IF kind = "push" THEN "Error pushing image: "
    ELSE "Error checking/creating ECR repository: "

\* Mutant: no handler, the exception leaves the tool and nothing is returned.
ToolFault_Escapes(f, e) == [f EXCEPT !.pc = "done", !.e = e]

\* except Exception as e: return Result(format_result('error', ...))
ToolFault(f, e) ==
    [f EXCEPT !.pc = "done", !.e = e,
              !.ret = Result(format_result("error", ErrPrefix(f.kind) \o e))]

\* except Exception as e in ensure_vm_running
EnsureFault(f, e) ==
    [f EXCEPT !.pc = "ensured", !.e = e,
              !.vm_status = format_result("error",
                  "Error ensuring Finch VM is running: " \o e)]

\* No record is at the filter.
NoRecord ==
    [phase |-> "none", msg |-> [type |-> "str", val |-> <<>>], args |-> <<>>,
     in_msg |-> [type |-> "str", val |-> <<>>], in_args |-> <<>>, ret |-> FALSE,
     mapping |-> FALSE, vals |-> <<>>, in_mapping |-> FALSE, in_vals |-> <<>>]

\* The module has not been imported: no log level is selected.
NoLogCfg ==
    [pc |-> "start", set |-> FALSE, env |-> <<>>, server_log_level |-> <<>>,
     log_level |-> [kind |-> "none", val |-> 0], error |-> ""]

\* No image is being pushed.
NoPush ==
    [pc |-> "none", image |-> <<>>, is_ecr |-> FALSE,
     inspect |-> [returncode |-> -1, stderr |-> "", has_id |-> FALSE, id |-> <<>>],
     tag_result |-> [returncode |-> -1, stderr |-> ""],
     push_result |-> [returncode |-> -1, stderr |-> ""],
     hash |-> <<>>, target |-> <<>>, cmds |-> <<>>,
     result |-> [status |-> "none", message |-> "", stderr |-> ""]]

Init ==
    /\ log = NoRecord /\ push = NoPush /\ logcfg = NoLogCfg
    /\ platform \in {"linux", "darwin"}
    /\ vm \in (IF platform = "linux" THEN {"nonexistent"} ELSE VmStates)
    /\ helper \in BOOLEAN
    /\ calls = 0
    /\ call = [p \in Procs |-> IdleFrame]

(* A new request arrives. Under Spec one invocation runs at a time. *)
Invoke(p) ==
    /\ calls < MaxCalls
    /\ \A q \in Procs : call[q].pc = "idle"
    /\ \E k \in Kinds, e \in BOOLEAN :
        /\ (k \notin Tools => ~e)
        /\ call' = [call EXCEPT ![p] =
                [IdleFrame EXCEPT !.pc = IF k \in Tools THEN "install" ELSE k,
                                  !.kind = k, !.ecr = e]]
    /\ calls' = calls + 1
    /\ UNCHANGED <<others, platform, vm, helper>>

\* Mutant: the installation check's error is not returned.
InstallStep_Ignore(f, r) ==
    [f EXCEPT !.finch_install_status = r, !.pc = "classify"]

(* finch_install_status = check_finch_installation(); return on error *)
InstallStep(f, r) ==
    IF r.status = "error"
    THEN [f EXCEPT !.finch_install_status = r, !.ret = Result(r), !.pc = "done"]
    ELSE [f EXCEPT !.finch_install_status = r, !.pc = "classify"]

CheckInstall(p) ==
    /\ call[p].pc = "install"
    /\ LET f == [call[p] EXCEPT !.cmds = Issue(call[p], "install")] IN
        \/ \E r \in CmdResults("install") :
                call' = [call EXCEPT ![p] = InstallStep(f, r)]
        \/ \E e \in Faults : call' = [call EXCEPT ![p] = ToolFault(f, e)]
    /\ UNCHANGED <<others, platform, vm, helper, calls>>

\* Mutant: login is configured whatever the classification.
ClassifyStep_Always(f) == [f EXCEPT !.is_ecr = f.ecr, !.pc = "configure"]

(* is_ecr = is_ecr_repository(request.image) / contains_ecr_reference(...) *)
ClassifyStep(f) ==
    [f EXCEPT !.is_ecr = f.ecr,
              !.pc = IF f.ecr THEN "configure" ELSE "ensure"]

Classify(p) ==
    /\ call[p].pc = "classify"
    /\ \/ call' = [call EXCEPT ![p] = ClassifyStep(call[p])]
       \/ \E e \in Faults : call' = [call EXCEPT ![p] = ToolFault(call[p], e)]
    /\ UNCHANGED <<others, platform, vm, helper, calls>>

(* config_result = configure_ecr(); changed = config_result.get('changed', False) *)
ConfigResults ==
    {[status |-> "success", message |-> "configured", extra |-> "",
      has_changed |-> TRUE, changed |-> ~helper],
     [status |-> "error", message |-> "configure failed", extra |-> "",
      has_changed |-> FALSE, changed |-> FALSE]}

\* Mutant: every configuration counts as changed.
GetChanged_Always(r) == TRUE

GetChanged(r) == IF r.has_changed THEN r.changed ELSE FALSE

\* Mutant: the changed flag is read but the VM is not stopped.
ConfigureStep_NoStop(f, r) ==
    [f EXCEPT !.config_result = r, !.changed = GetChanged(r), !.pc = "ensure"]

ConfigureStep(f, r) ==
    [f EXCEPT !.config_result = r,
              !.changed = GetChanged(r),
              !.pc = IF GetChanged(r) THEN "stop" ELSE "ensure"]

Configure(p) ==
    /\ call[p].pc = "configure"
    /\ LET f == [call[p] EXCEPT !.cmds = Issue(call[p], "configure")] IN
        \/ \E r \in ConfigResults :
            /\ call' = [call EXCEPT ![p] = ConfigureStep(f, r)]
            /\ helper' = (helper \/ r.status = "success")
        \/ /\ \E e \in Faults : call' = [call EXCEPT ![p] = ToolFault(f, e)]
           /\ UNCHANGED helper
    /\ UNCHANGED <<others, platform, vm, calls>>

(* stop_vm(force=True): the returned dict is dropped *)
StopStep(f, r) == [f EXCEPT !.stop_result = r, !.pc = "ensure"]

StopVm(p) ==
    /\ call[p].pc = "stop"
    /\ LET f == [call[p] EXCEPT !.cmds = Issue(call[p], "stop")] IN
        \/ /\ platform # "linux" /\ vm # "nonexistent"
           /\ call' = [call EXCEPT ![p] = StopStep(f, CmdSuccess("stop"))]
           /\ vm' = "stopped"
        \/ /\ \E r \in CmdErrors("stop") :
                call' = [call EXCEPT ![p] = StopStep(f, r)]
           /\ UNCHANGED vm
        \/ /\ \E e \in Faults : call' = [call EXCEPT ![p] = ToolFault(f, e)]
           /\ UNCHANGED vm
    /\ UNCHANGED <<others, platform, helper, calls>>

\* Mutant: no platform shortcut, the VM is queried on every host.
EnterStep_NoShortcut(f) == [f EXCEPT !.pc = "status"]

(* ensure_vm_running: the platform shortcut *)
EnterStep(f) ==
    IF platform = "linux"
    THEN [f EXCEPT !.vm_status =
                format_result("success", "No VM operation required on Linux."),
                   !.pc = "ensured"]
    ELSE [f EXCEPT !.pc = "status"]

EnsureEnter(p) ==
    /\ call[p].pc = "ensure"
    /\ call' = [call EXCEPT ![p] = EnterStep(call[p])]
    /\ UNCHANGED <<others, platform, vm, helper, calls>>

(* status_result = get_vm_status() *)
GetStatus(p) ==
    /\ call[p].pc = "status"
    /\ LET f == [call[p] EXCEPT !.cmds = Issue(call[p], "status")] IN
        \/ \E s \in StatusOutputs(vm) :
                call' = [call EXCEPT ![p] =
                            [f EXCEPT !.status_result = s, !.pc = "branch"]]
        \/ \E e \in Faults : call' = [call EXCEPT ![p] = EnsureFault(f, e)]
    /\ UNCHANGED <<others, platform, vm, helper, calls>>

\* Mutant: the stopped markers are checked before the nonexistent markers.
VmBranch_StoppedFirst(s) ==
    IF is_vm_stopped(s) THEN "start"
    ELSE IF is_vm_nonexistent(s) THEN "init"
    ELSE IF is_vm_running(s) THEN "noop"
    ELSE "unknown"

\* Mutant: the running markers are checked first.
VmBranch_RunningFirst(s) ==
    IF is_vm_running(s) THEN "noop"
    ELSE IF is_vm_nonexistent(s) THEN "init"
    ELSE IF is_vm_stopped(s) THEN "start"
    ELSE "unknown"

\* Mutant: the running branch is missing.
VmBranch_NoRunning(s) ==
    IF is_vm_nonexistent(s) THEN "init"
    ELSE IF is_vm_stopped(s) THEN "start"
    ELSE "unknown"

(* the if / elif / elif / else of ensure_vm_running *)
VmBranch(s) ==
    IF is_vm_nonexistent(s) THEN "init"
    ELSE IF is_vm_stopped(s) THEN "start"
    ELSE IF is_vm_running(s) THEN "noop"
    ELSE "unknown"

\* Mutant: the failure is re-wrapped, its extra fields are lost.
TransitionStep_Rewrap(f, r, msg) ==
    IF r.status = "error"
    THEN [f EXCEPT !.result = r, !.vm_status = format_result("error", r.message),
                   !.pc = "ensured"]
    ELSE [f EXCEPT !.result = r, !.vm_status = format_result("success", msg),
                   !.pc = "ensured"]

(* result = initialize_vm() / start_stopped_vm(); return result on error *)
TransitionStep(f, r, msg) ==
    IF r.status = "error"
    THEN [f EXCEPT !.result = r, !.vm_status = r, !.pc = "ensured"]
    ELSE [f EXCEPT !.result = r, !.vm_status = format_result("success", msg),
                   !.pc = "ensured"]

Transition(p, name, msg) ==
    LET f == [call[p] EXCEPT !.cmds = Issue(call[p], name)] IN
        \/ \E r \in CmdResults(name) :
            /\ call' = [call EXCEPT ![p] = TransitionStep(f, r, msg)]
            /\ vm' = IF r.status = "success" THEN "running" ELSE vm
        \/ /\ \E e \in Faults : call' = [call EXCEPT ![p] = EnsureFault(f, e)]
           /\ UNCHANGED vm

EnsureInit(p) ==
    /\ call[p].pc = "branch"
    /\ VmBranch(call[p].status_result) = "init"
    /\ Transition(p, "init", "Finch VM was initialized successfully.")
    /\ UNCHANGED <<others, platform, helper, calls>>

EnsureStart(p) ==
    /\ call[p].pc = "branch"
    /\ VmBranch(call[p].status_result) = "start"
    /\ Transition(p, "start", "Finch VM was started successfully.")
    /\ UNCHANGED <<others, platform, helper, calls>>

NoopStep(f) ==
    [f EXCEPT !.vm_status = format_result("success", "Finch VM is already running."),
              !.pc = "ensured"]

EnsureNoop(p) ==
    /\ call[p].pc = "branch"
    /\ VmBranch(call[p].status_result) = "noop"
    /\ call' = [call EXCEPT ![p] = NoopStep(call[p])]
    /\ UNCHANGED <<others, platform, vm, helper, calls>>

\* Mutant: the error message does not carry the status code.
UnknownStep_NoCode(f) ==
    [f EXCEPT !.vm_status = format_result("error", "Unknown VM status"),
              !.pc = "ensured"]

UnknownStep(f) ==
    [f EXCEPT !.vm_status = format_result("error",
                  "Unknown VM status: status code "
                      \o ToString(f.status_result.returncode)),
              !.pc = "ensured"]

EnsureUnknown(p) ==
    /\ call[p].pc = "branch"
    /\ VmBranch(call[p].status_result) = "unknown"
    /\ call' = [call EXCEPT ![p] = UnknownStep(call[p])]
    /\ UNCHANGED <<others, platform, vm, helper, calls>>

\* Mutant: after a failed ensure_vm_running the tool tries again.
AfterEnsureStep_Retry(f) ==
    IF f.kind = "ensure" THEN [f EXCEPT !.pc = "done"]
    ELSE IF f.vm_status.status = "error"
         THEN [f EXCEPT !.pc = "ensure"]
         ELSE [f EXCEPT !.pc = "act"]

\* Mutant: the error of ensure_vm_running is not checked.
AfterEnsureStep_NoCheck(f) ==
    IF f.kind = "ensure" THEN [f EXCEPT !.pc = "done"]
    ELSE [f EXCEPT !.pc = "act"]

\* Mutant: the error is returned under the tool's own message.
AfterEnsureStep_Wrap(f) ==
    IF f.kind = "ensure" THEN [f EXCEPT !.pc = "done"]
    ELSE IF f.vm_status.status = "error"
         THEN [f EXCEPT !.ret = Result(format_result("error",
                            ErrPrefix(f.kind) \o f.vm_status.message)),
                        !.pc = "done"]
         ELSE [f EXCEPT !.pc = "act"]

(* vm_status = ensure_vm_running(); return Result(vm_status) on error *)
AfterEnsureStep(f) ==
    IF f.kind = "ensure" THEN [f EXCEPT !.pc = "done"]
    ELSE IF f.vm_status.status = "error"
         THEN [f EXCEPT !.ret = Result(f.vm_status), !.pc = "done"]
         ELSE [f EXCEPT !.pc = "act"]

AfterEnsure(p) ==
    /\ call[p].pc = "ensured"
    /\ call' = [call EXCEPT ![p] = AfterEnsureStep(call[p])]
    /\ UNCHANGED <<others, platform, vm, helper, calls>>

(* result = build_image(...) / push_image(request.image); return Result(result) *)
ActStep(f, r) == [f EXCEPT !.ret = Result(r), !.pc = "done"]

Act(p) ==
    /\ call[p].pc = "act"
    /\ LET f == [call[p] EXCEPT !.cmds = Issue(call[p], ActCmd(call[p].kind))] IN
        \/ \E r \in CmdResults(ActCmd(f.kind)) :
                call' = [call EXCEPT ![p] = ActStep(f, r)]
        \/ \E e \in Faults : call' = [call EXCEPT ![p] = ToolFault(f, e)]
    /\ UNCHANGED <<others, platform, vm, helper, calls>>

(* finch_create_ecr_repo: result = create_ecr_repository(...) *)
CreateRepo(p) ==
    /\ call[p].pc = "create"
    /\ LET f == [call[p] EXCEPT !.cmds = Issue(call[p], "create_repo")] IN
        \/ \E r \in CmdResults("create_repo") :
                call' = [call EXCEPT ![p] = ActStep(f, r)]
        \/ \E e \in Faults : call' = [call EXCEPT ![p] = ToolFault(f, e)]
    /\ UNCHANGED <<others, platform, vm, helper, calls>>

(* the caller has its result; the frame is dropped *)
Return(p) ==
    /\ call[p].pc = "done"
    /\ call' = [call EXCEPT ![p] = IdleFrame]
    /\ UNCHANGED <<others, platform, vm, helper, calls>>

Next ==
    \E p \in Procs :
        \/ Invoke(p)
        \/ CheckInstall(p)
        \/ Classify(p)
        \/ Configure(p)
        \/ StopVm(p)
        \/ EnsureEnter(p)
        \/ GetStatus(p)
        \/ EnsureInit(p)
        \/ EnsureStart(p)
        \/ EnsureNoop(p)
        \/ EnsureUnknown(p)
        \/ AfterEnsure(p)
        \/ Act(p)
        \/ CreateRepo(p)
        \/ Return(p)

Spec == Init /\ [][Next]_vars

(* ------------- callers in separate server processes ------------------- *)
\* Mutant: a caller is admitted only while no other caller is running.
Admitted_Exclusive(p) == \A q \in Procs : call[q].pc = "idle"

\* Each server process serves its own caller; the processes share the VM and
\* the credential-helper entry, and nothing in the code takes a lock on them.
Admitted(p) == call[p].pc = "idle"

\* Two concurrent invocations, through ensure_vm_running or finch_push_image.
ConcKinds == {"ensure", "push"}

InvokeConc(p) ==
    /\ calls < Cardinality(Procs)
    /\ Admitted(p)
    /\ \E k \in ConcKinds, e \in BOOLEAN :
        /\ (k \notin Tools => ~e)
        /\ call' = [call EXCEPT ![p] =
                [IdleFrame EXCEPT !.pc = IF k \in Tools THEN "install" ELSE k,
                                  !.kind = k, !.ecr = e]]
    /\ calls' = calls + 1
    /\ UNCHANGED <<others, platform, vm, helper>>

NextConc ==
    \E p \in Procs :
        \/ InvokeConc(p)
        \/ CheckInstall(p)
        \/ Classify(p)
        \/ Configure(p)
        \/ StopVm(p)
        \/ EnsureEnter(p)
        \/ GetStatus(p)
        \/ EnsureInit(p)
        \/ EnsureStart(p)
        \/ EnsureNoop(p)
        \/ EnsureUnknown(p)
        \/ AfterEnsure(p)
        \/ Act(p)
        \/ Return(p)

SpecConc == Init /\ [][NextConc]_vars

(* ---------------- SensitiveDataFilter: log redaction ----------------- *)
\* Text is a sequence of one-character strings; a value (a message or a
\* positional argument) is [type, val], val being its text.
Upper ==
    {"A", "B", "C", "D", "E", "F", "G", "H", "I", "J", "K", "L", "M",
     "N", "O", "P", "Q", "R", "S", "T", "U", "V", "W", "X", "Y", "Z"}
Lower ==
    {"a", "b", "c", "d", "e", "f", "g", "h", "i", "j", "k", "l", "m",
     "n", "o", "p", "q", "r", "s", "t", "u", "v", "w", "x", "y", "z"}
Digits ==
    {"0", "1", "2", "3", "4", "5", "6", "7", "8", "9"}
UpperSeq ==
    <<"A", "B", "C", "D", "E", "F", "G", "H", "I", "J", "K", "L", "M", "N",
      "O", "P", "Q", "R", "S", "T", "U", "V", "W", "X", "Y", "Z">>
LowerSeq ==
    <<"a", "b", "c", "d", "e", "f", "g", "h", "i", "j", "k", "l", "m", "n",
      "o", "p", "q", "r", "s", "t", "u", "v", "w", "x", "y", "z">>
UpperAlnum == Upper \cup Digits
Base64 == UpperAlnum \cup Lower \cup {"/", "+", "="}
Whitespace == {" "}
Quotes == {"\"", "'"}

\* re.IGNORECASE on the letters of a name
ToLower(c) ==
    IF c \in Upper THEN LowerSeq[CHOOSE i \in 1..Len(UpperSeq) : UpperSeq[i] = c]
    ELSE c

AccessKeyLen == 20
SecretKeyLen == 40
NumPatterns == 7

AccessKeyMarker ==
    <<"A", "W", "S", "_", "A", "C", "C", "E", "S", "S", "_", "K", "E", "Y",
      "_", "R", "E", "D", "A", "C", "T", "E", "D">>
SecretKeyMarker ==
    <<"A", "W", "S", "_", "S", "E", "C", "R", "E", "T", "_", "K", "E", "Y",
      "_", "R", "E", "D", "A", "C", "T", "E", "D">>
ApiKeyMarker ==
    <<"a", "p", "i", "_", "k", "e", "y", "=", "R", "E", "D", "A", "C", "T",
      "E", "D">>
PasswordMarker ==
    <<"p", "a", "s", "s", "w", "o", "r", "d", "=", "R", "E", "D", "A", "C",
      "T", "E", "D">>
SecretMarker ==
    <<"s", "e", "c", "r", "e", "t", "=", "R", "E", "D", "A", "C", "T", "E",
      "D">>
TokenMarker ==
    <<"t", "o", "k", "e", "n", "=", "R", "E", "D", "A", "C", "T", "E", "D">>
UrlMarker ==
    <<"R", "E", "D", "A", "C", "T", "E", "D", ":", "R", "E", "D", "A", "C",
      "T", "E", "D", "@">>

ApiKeyNames ==
    {<<"a", "p", "i", "_", "k", "e", "y">>,
     <<"a", "p", "i", "-", "k", "e", "y">>,
     <<"a", "p", "i", "k", "e", "y">>}
PasswordNames == {<<"p", "a", "s", "s", "w", "o", "r", "d">>}
SecretNames == {<<"s", "e", "c", "r", "e", "t">>}
TokenNames == {<<"t", "o", "k", "e", "n">>}
HttpScheme == <<"h", "t", "t", "p", ":", "/", "/">>
HttpsScheme == <<"h", "t", "t", "p", "s", ":", "/", "/">>

StartsAt(s, i, w) ==
    /\ i + Len(w) - 1 <= Len(s)
    /\ \A k \in 1..Len(w) : s[i + k - 1] = w[k]

StartsAtI(s, i, w) ==
    /\ i + Len(w) - 1 <= Len(s)
    /\ \A k \in 1..Len(w) : ToLower(s[i + k - 1]) = w[k]

\* (?<![C])[C]{n}(?![C]) matches at i
TokenAt(s, i, class, n) ==
    /\ i + n - 1 <= Len(s)
    /\ \A k \in i..(i + n - 1) : s[k] \in class
    /\ i = 1 \/ s[i - 1] \notin class
    /\ i + n > Len(s) \/ s[i + n] \notin class

\* pattern.sub(repl, s) for a bare-token pattern, scanning from i
RECURSIVE SubToken(_, _, _, _, _)
SubToken(s, i, class, n, repl) ==
    IF i > Len(s) THEN <<>>
    ELSE IF TokenAt(s, i, class, n)
         THEN repl \o SubToken(s, i + n, class, n, repl)
         ELSE <<s[i]>> \o SubToken(s, i + 1, class, n, repl)

RECURSIVE SkipSpace(_, _)
SkipSpace(s, i) ==
    IF i <= Len(s) /\ s[i] \in Whitespace THEN SkipSpace(s, i + 1) ELSE i

RECURSIVE NextQuote(_, _)
NextQuote(s, i) ==
    IF i > Len(s) THEN 0
    ELSE IF s[i] \in Quotes THEN i ELSE NextQuote(s, i + 1)

\* name[=:]\s*["'](.*?)["'] matches at i: the index of its closing quote,
\* 0 when it does not match
AssignEnd(s, i, names) ==
    IF ~(\E w \in names : StartsAtI(s, i, w)) THEN 0
    ELSE LET w == CHOOSE x \in names : StartsAtI(s, i, x)
             a == i + Len(w)
         IN  IF a > Len(s) \/ s[a] \notin {"=", ":"} THEN 0
             ELSE LET q == SkipSpace(s, a + 1)
                  IN  IF q > Len(s) \/ s[q] \notin Quotes THEN 0
                      ELSE NextQuote(s, q + 1)

RECURSIVE SubAssign(_, _, _, _)
SubAssign(s, i, names, repl) ==
    IF i > Len(s) THEN <<>>
    ELSE IF AssignEnd(s, i, names) > 0
         THEN repl \o SubAssign(s, AssignEnd(s, i, names) + 1, names, repl)
         ELSE <<s[i]>> \o SubAssign(s, i + 1, names, repl)

\* the index after the longest run of [^:@\s] that starts at i
RECURSIVE RunEnd(_, _)
RunEnd(s, i) ==
    IF i <= Len(s) /\ s[i] \notin ({":", "@"} \cup Whitespace)
    THEN RunEnd(s, i + 1) ELSE i

SchemeLen(s, i) ==
    IF StartsAt(s, i, HttpsScheme) THEN Len(HttpsScheme)
    ELSE IF StartsAt(s, i, HttpScheme) THEN Len(HttpScheme)
    ELSE 0

\* (https?://)([^:@\s]+):([^:@\s]+)@ matches at i: the index of its '@',
\* 0 when it does not match
UrlEnd(s, i) ==
    IF SchemeLen(s, i) = 0 THEN 0
    ELSE LET u == i + SchemeLen(s, i)
             c == RunEnd(s, u)
         IN  IF c = u \/ c > Len(s) \/ s[c] # ":" THEN 0
             ELSE LET e == RunEnd(s, c + 1)
                  IN  IF e = c + 1 \/ e > Len(s) \/ s[e] # "@" THEN 0
                      ELSE e

RECURSIVE SubUrl(_, _)
SubUrl(s, i) ==
    IF i > Len(s) THEN <<>>
    ELSE IF UrlEnd(s, i) > 0
         THEN SubSeq(s, i, i + SchemeLen(s, i) - 1) \o UrlMarker
                  \o SubUrl(s, UrlEnd(s, i) + 1)
         ELSE <<s[i]>> \o SubUrl(s, i + 1)

\* self.patterns[k - 1] applied: pattern.sub(replacement, s)
ApplyPattern(k, s) ==
    CASE k = 1 -> SubToken(s, 1, UpperAlnum, AccessKeyLen, AccessKeyMarker)
      [] k = 2 -> SubToken(s, 1, Base64, SecretKeyLen, SecretKeyMarker)
      [] k = 3 -> SubAssign(s, 1, ApiKeyNames, ApiKeyMarker)
      [] k = 4 -> SubAssign(s, 1, PasswordNames, PasswordMarker)
      [] k = 5 -> SubAssign(s, 1, SecretNames, SecretMarker)
      [] k = 6 -> SubAssign(s, 1, TokenNames, TokenMarker)
      [] OTHER -> SubUrl(s, 1)

\* for pattern, replacement in self.patterns:
\*     record.msg = pattern.sub(replacement, record.msg)
RECURSIVE MsgLoop(_, _)
MsgLoop(msg, k) ==
    IF k > NumPatterns THEN msg ELSE MsgLoop(ApplyPattern(k, msg), k + 1)

\* for pattern, replacement in self.patterns:
\*     args_list[i] = pattern.sub(replacement, arg)
\* every pattern is applied to arg, the argument as it was passed.
RECURSIVE ArgLoop(_, _, _)
ArgLoop(arg, cur, k) ==
    IF k > NumPatterns THEN cur ELSE ArgLoop(arg, ApplyPattern(k, arg), k + 1)

FilterMsg(m) ==
    IF m.type = "str" THEN [m EXCEPT !.val = MsgLoop(m.val, 1)] ELSE m

FilterArg(a) ==
    IF a.type = "str" THEN [a EXCEPT !.val = ArgLoop(a.val, a.val, 1)] ELSE a

FilterArgs(args) ==
    IF Len(args) > 0 THEN [i \in 1..Len(args) |-> FilterArg(args[i])] ELSE args

(* --------------- utils.push: retagging and pushing an image ----------- *)
HashLen == 12

Sha256Prefix == <<"s", "h", "a", "2", "5", "6", ":">>

LastIndex(s, c) ==
    IF \E i \in 1..Len(s) : s[i] = c
    THEN CHOOSE i \in 1..Len(s) : s[i] = c /\ \A j \in (i + 1)..Len(s) : s[j] # c
    ELSE 0

StripTag_LastColon(ref) ==
    LET colon == LastIndex(ref, ":")
    IN  IF colon > 0 THEN SubSeq(ref, 1, colon - 1) ELSE ref

\* The reference without its tag: the tag starts at the last ':' that
\* follows the last '/'.
StripTag(ref) ==
    LET slash == LastIndex(ref, "/")
        colon == LastIndex(ref, ":")
    IN  IF colon > slash THEN SubSeq(ref, 1, colon - 1) ELSE ref

\* s[a:b] with the indexes clamped to the text, counted from 1
Slice(s, a, b) ==
    IF a > Len(s) THEN <<>>
    ELSE SubSeq(s, a, IF b < Len(s) THEN b ELSE Len(s))

\* The first 12 characters that follow a 'sha256:' prefix, if there is one.
ShortHash(hash) ==
    IF StartsAt(hash, 1, Sha256Prefix)
    THEN Slice(hash, Len(Sha256Prefix) + 1, Len(Sha256Prefix) + HashLen)
    ELSE Slice(hash, 1, HashLen)

RetagTarget(image, hash) == StripTag(image) \o <<":">> \o ShortHash(hash)

HashResult_AnyId(image, out) ==
    IF out.returncode # 0
    THEN [status |-> "error", message |-> "Failed to get hash for image",
          stderr |-> out.stderr, hash |-> <<>>]
    ELSE [status |-> "success", message |-> "Successfully retrieved hash",
          stderr |-> "", hash |-> out.id]

\* get_image_hash: the inspect command's exit code and the Id of its output
HashResult(image, out) ==
    IF out.returncode # 0
    THEN [status |-> "error", message |-> "Failed to get hash for image",
          stderr |-> out.stderr, hash |-> <<>>]
    ELSE IF ~out.has_id \/ out.id = <<>>
    THEN [status |-> "error",
          message |-> "Could not find hash in image inspect output",
          stderr |-> "", hash |-> <<>>]
    ELSE [status |-> "success", message |-> "Successfully retrieved hash",
          stderr |-> "", hash |-> out.id]

PushResult(r) == [status |-> r.status, message |-> r.message, stderr |-> r.stderr]

\* push_image, after the inspect command returned out
AfterInspect(f, out) ==
    LET h == HashResult(f.image, out) IN
    IF h.status = "error"
    THEN [f EXCEPT !.pc = "done", !.result = PushResult(h)]
    ELSE [f EXCEPT !.pc = "tag", !.hash = h.hash,
                   !.target = RetagTarget(f.image, h.hash)]

\* Mutant: the result of the tag command is not checked.
AfterTag_Unchecked(f, out) == [f EXCEPT !.pc = "push"]

\* push_image, after the tag command returned out
AfterTag(f, out) ==
    IF out.returncode # 0
    THEN [f EXCEPT !.pc = "done",
                   !.result = [status |-> "error",
                               message |-> "Failed to tag image with hash",
                               stderr |-> out.stderr]]
    ELSE [f EXCEPT !.pc = "push"]

\* push_image, after the push command returned out
AfterPush(f, out) ==
    IF out.returncode # 0
    THEN [f EXCEPT !.pc = "done",
                   !.result = [status |-> "error",
                               message |-> "Failed to push image",
                               stderr |-> out.stderr]]
    ELSE [f EXCEPT !.pc = "done",
                   !.result = [status |-> "success",
                               message |-> "Successfully pushed image",
                               stderr |-> ""]]

(* ------------------- records reaching the filter ---------------------- *)
MaxArgs == 2

ExampleAccessKey ==
    <<"A", "K", "I", "A", "I", "O", "S", "F", "O", "D", "N", "N", "7", "E",
      "X", "A", "M", "P", "L", "E">>
ExampleSecretKey ==
    <<"w", "J", "a", "l", "r", "X", "U", "t", "n", "F", "E", "M", "I", "/",
      "K", "7", "M", "D", "E", "N", "G", "/", "b", "P", "x", "R", "f",
      "i", "C", "Y", "E", "X", "A", "M", "P", "L", "E", "K", "E", "Y">>
\* a 40-character secret that holds a run of exactly 20 uppercase letters
\* and digits between lowercase letters
MixedSecretKey ==
    <<"a", "b", "c", "d", "e", "f", "g", "h", "i", "j">>
        \o ExampleAccessKey
        \o <<"k", "l", "m", "n", "o", "p", "q", "r", "s", "t">>
ExampleUrl ==
    <<"h", "t", "t", "p", "s", ":", "/", "/", "u", "s", "e", "r", ":", "p",
      "w", "@", "h", "o", "s", "t">>

Str(text) == [type |-> "str", val |-> text]
NonStr(text) == [type |-> "int", val |-> text]

LogPrefixes ==
    {<<>>, <<"k", "e", "y", " ">>, <<"t", "o", "k", "e", "n", "=", "'">>, <<"x">>}
LogBodies == {ExampleAccessKey, ExampleSecretKey, MixedSecretKey, <<"o", "k">>}
LogSuffixes == {<<>>, <<"'">>, <<" ">>}

LogMessages ==
    {Str(a \o b \o c) : a \in LogPrefixes, b \in LogBodies, c \in LogSuffixes}
        \cup {NonStr(<<"7">>)}

LogArgValues ==
    {Str(ExampleAccessKey), Str(<<"i", "d", " ">> \o ExampleAccessKey),
     Str(ExampleUrl), NonStr(<<"7">>)}

LogArgs == UNION {[1..n -> LogArgValues] : n \in 0..MaxArgs}

\* logger.info(msg, {...}): record.args is the mapping itself; args holds
\* its keys, as list(record.args) gives them, and vals its values.
LogMappings ==
    {[keys |-> <<Str(<<"a">>)>>, vals |-> <<Str(ExampleAccessKey)>>],
     [keys |-> <<Str(<<"a">>), Str(<<"b">>)>>,
      vals |-> <<Str(<<"o", "k">>), NonStr(<<"7">>)>>]}

(* logger.info(msg, *args): the record arrives at the handler *)
Emit ==
    /\ log.phase = "none"
    /\ \/ \E m \in LogMessages, a \in LogArgs :
            log' = [NoRecord EXCEPT !.phase = "emitted", !.msg = m, !.args = a,
                                    !.in_msg = m, !.in_args = a]
       \/ \E m \in LogMessages, d \in LogMappings :
            log' = [NoRecord EXCEPT !.phase = "emitted", !.msg = m,
                                    !.args = d.keys, !.vals = d.vals,
                                    !.mapping = TRUE,
                                    !.in_msg = m, !.in_args = d.keys,
                                    !.in_vals = d.vals, !.in_mapping = TRUE]
    /\ UNCHANGED <<mainvars, push, logcfg>>

(* SensitiveDataFilter.filter(record) *)
\* record.args = tuple(args_list): of a mapping only the keys are left.
FilterRecord(r) ==
    [r EXCEPT !.phase = "filtered",
              !.msg = FilterMsg(r.msg),
              !.args = FilterArgs(r.args),
              !.mapping = IF Len(r.args) > 0 THEN FALSE ELSE r.mapping,
              !.vals = IF Len(r.args) > 0 THEN <<>> ELSE r.vals,
              !.ret = TRUE]

Filter ==
    /\ log.phase = "emitted"
    /\ log' = FilterRecord(log)
    /\ UNCHANGED <<mainvars, push, logcfg>>

(* the handler has written the record *)
Flush ==
    /\ log.phase = "filtered"
    /\ log' = NoRecord
    /\ UNCHANGED <<mainvars, push, logcfg>>

InitFilter ==
    /\ log = NoRecord /\ push = NoPush /\ logcfg = NoLogCfg
    /\ platform = "linux" /\ vm = "nonexistent" /\ helper = FALSE
    /\ calls = 0
    /\ call = [p \in Procs |-> IdleFrame]

NextFilter == Emit \/ Filter \/ Flush

SpecFilter == InitFilter /\ [][NextFilter]_vars

(* ------------- utils.push: is_ecr_repository and push_image ----------- *)
AccountLen == 12

EcrSegment == <<".", "d", "k", "r", ".", "e", "c", "r", ".">>
AwsDomain == <<".", "a", "m", "a", "z", "o", "n", "a", "w", "s", ".", "c", "o", "m">>

RECURSIVE ClassRunEnd(_, _, _)
\* the index after the longest run of class characters that starts at i
ClassRunEnd(s, i, class) ==
    IF i <= Len(s) /\ s[i] \in class THEN ClassRunEnd(s, i + 1, class) ELSE i

\* [^:]+(:.+)?$ matches from i
PathAt(s, i) ==
    LET c == ClassRunEnd(s, i, {s[k] : k \in 1..Len(s)} \ {":"})
    IN  c > i /\ (c > Len(s) \/ c < Len(s))

RegionAt_NoDigit(s, i) ==
    LET a == ClassRunEnd(s, i, Lower)
        b == ClassRunEnd(s, a + 1, Lower \cup Digits)
    IN  /\ a > i /\ StartsAt(s, a, <<"-">>)
        /\ b > a + 1
        /\ StartsAt(s, b, AwsDomain \o <<"/">>)
        /\ PathAt(s, b + Len(AwsDomain) + 1)

\* [a-z]+-[a-z]+-[0-9] followed by .amazonaws.com/ and a path, from i
RegionAt(s, i) ==
    LET a == ClassRunEnd(s, i, Lower)
        b == ClassRunEnd(s, a + 1, Lower)
    IN  /\ a > i /\ StartsAt(s, a, <<"-">>)
        /\ b > a + 1 /\ StartsAt(s, b, <<"-">>)
        /\ b + 1 <= Len(s) /\ s[b + 1] \in Digits
        /\ StartsAt(s, b + 2, AwsDomain \o <<"/">>)
        /\ PathAt(s, b + 2 + Len(AwsDomain) + 1)

is_ecr_repository(s) ==
    /\ ClassRunEnd(s, 1, Digits) = AccountLen + 1
    /\ StartsAt(s, AccountLen + 1, EcrSegment)
    /\ RegionAt(s, AccountLen + 1 + Len(EcrSegment))

Accounts ==
    {<<"1", "2", "3", "4", "5", "6", "7", "8", "9", "0", "1", "2">>,
     <<"1", "2", "3", "4", "5">>,
     <<"1", "2", "3", "4", "5", "6", "7", "8", "9", "0", "1", "2", "3">>}
Segments ==
    {<<".", "d", "k", "r", ".", "e", "c", "r", ".">>,
     <<".", "e", "c", "r", ".">>}
Regions ==
    {<<"u", "s", "-", "w", "e", "s", "t", "-", "2">>,
     <<"a", "p", "-", "s", "o", "u", "t", "h", "e", "a", "s", "t", "-", "2">>,
     <<"i", "n", "v", "a", "l", "i", "d", "-", "r", "e", "g", "i", "o", "n">>,
     <<"u", "s", "-", "g", "o", "v", "-", "w", "e", "s", "t", "-", "1">>}
Domains ==
    {<<".", "a", "m", "a", "z", "o", "n", "a", "w", "s", ".", "c", "o", "m">>,
     <<".", "e", "x", "a", "m", "p", "l", "e", ".", "c", "o", "m">>}
Paths ==
    {<<"m", "y", "r", "e", "p", "o">>,
     <<"m", "y", "-", "r", "e", "p", "o", "/", "n", "e", "s", "t", "e", "d">>}
Tags ==
    {<<>>, <<":", "l", "a", "t", "e", "s", "t">>, <<":", "1", ".", "0", ".", "0">>}

\* registry-shaped references, each constituent right or wrong
RegistryRefs ==
    {a \o g \o r \o d \o <<"/">> \o q \o t :
        a \in Accounts, g \in Segments, r \in Regions, d \in Domains,
        q \in Paths, t \in Tags}

PlainRefs ==
    {<<"m", "y", "r", "e", "p", "o", ":", "l", "a", "t", "e", "s", "t">>,
     <<"m", "y", "r", "e", "p", "o">>,
     <<"d", "o", "c", "k", "e", "r", ".", "i", "o", "/", "l", "i", "b", "r",    "a", "r", "y", "/", "n", "g", "i", "n", "x", ":", "l", "a", "t",    "e", "s", "t">>,
     <<"l", "o", "c", "a", "l", "h", "o", "s", "t", ":", "5", "0", "0", "0",    "/", "m", "y", "i", "m", "a", "g", "e", ":", "l", "a", "t", "e",    "s", "t">>,
     <<"l", "o", "c", "a", "l", "h", "o", "s", "t", ":", "5", "0", "0", "0",    "/", "r", "e", "p", "o">>,
     <<"1", "2", "3", "4", "5", "6", "7", "8", "9", "0", "1", "2", ".", "d",    "k", "r", ".", "e", "c", "r", ".", "u", "s", "-", "w", "e", "s",    "t", "-", "2", ".", "a", "m", "a", "z", "o", "n", "a", "w", "s",    ".", "c", "o", "m", "/">>,
     <<"1", "2", "3", "4", "5", "6", "7", "8", "9", "0", "1", "2", ".", "d",    "k", "r", ".", "e", "c", "r", ".", "u", "s", "-", "w", "e", "s",    "t", "-", "2", ".", "a", "m", "a", "z", "o", "n", "a", "w", "s",    ".", "c", "o", "m">>}

ImageRefs == RegistryRefs \cup PlainRefs

ImageIds ==
    {<<"s", "h", "a", "2", "5", "6", ":", "1", "2", "3", "4", "5", "6", "7",    "8", "9", "0", "a", "b", "c", "d", "e", "f", "1", "2", "3", "4",    "5", "6", "7", "8", "9", "0", "a", "b", "c", "d", "e", "f", "1",    "2", "3", "4", "5", "6", "7", "8", "9", "0", "a", "b", "c", "d",    "e", "f", "1", "2", "3", "4", "5", "6", "7", "8", "9", "0", "a",    "b", "c", "d", "e", "f">>,
     <<"s", "h", "a", "2", "5", "6", ":", "a", "a", "a", "a", "a", "a", "a",    "a", "a", "a", "a", "a", "a", "a", "a", "a", "a", "a", "a", "a",    "a", "a", "a", "a", "a", "a", "a", "a", "a", "a", "a", "a", "a",    "a", "a", "a", "a", "a", "a", "a", "a", "a", "a", "a", "a", "a",    "a", "a", "a", "a", "a", "a", "a", "a", "a", "a", "a", "a", "a",    "a", "a", "a", "a", "a">>,
     <<"0", "1", "2", "3", "4", "5", "6", "7", "8", "9", "a", "b", "c", "d",    "e", "f", "0", "1", "2", "3", "4", "5", "6", "7", "8", "9", "a",    "b", "c", "d", "e", "f", "0", "1", "2", "3", "4", "5", "6", "7",    "8", "9", "a", "b", "c", "d", "e", "f", "0", "1", "2", "3", "4",    "5", "6", "7", "8", "9", "a", "b", "c", "d", "e", "f">>}

\* what `finch image inspect` can return
InspectOutputs ==
    {[returncode |-> rc, stderr |-> "stderr", has_id |-> FALSE, id |-> <<>>] :
        rc \in ReturnCodes \ {0}}
    \cup {[returncode |-> 0, stderr |-> "", has_id |-> FALSE, id |-> <<>>],
          [returncode |-> 0, stderr |-> "", has_id |-> TRUE, id |-> <<>>]}
    \cup {[returncode |-> 0, stderr |-> "", has_id |-> TRUE, id |-> h] :
            h \in ImageIds}

\* what `finch image tag` and `finch image push` can return
CommandOutputs ==
    {[returncode |-> rc, stderr |-> IF rc = 0 THEN "" ELSE "stderr"] :
        rc \in ReturnCodes}

Command(name, args) == [cmd |-> name, args |-> args]

PushBegin ==
    /\ push.pc = "none"
    /\ \E image \in ImageRefs :
        push' = [NoPush EXCEPT !.pc = "classify", !.image = image]
    /\ UNCHANGED <<mainvars, log, logcfg>>

PushClassify ==
    /\ push.pc = "classify"
    /\ push' = [push EXCEPT !.pc = "inspect",
                            !.is_ecr = is_ecr_repository(push.image)]
    /\ UNCHANGED <<mainvars, log, logcfg>>

PushInspect ==
    /\ push.pc = "inspect"
    /\ \E out \in InspectOutputs :
        push' = AfterInspect(
            [push EXCEPT !.cmds = Append(@, Command("inspect", <<push.image>>)),
                         !.inspect = out],
            out)
    /\ UNCHANGED <<mainvars, log, logcfg>>

PushTag ==
    /\ push.pc = "tag"
    /\ \E out \in CommandOutputs :
        push' = AfterTag(
            [push EXCEPT !.cmds =
                Append(@, Command("tag", <<push.image, push.target>>)),
                         !.tag_result = out],
            out)
    /\ UNCHANGED <<mainvars, log, logcfg>>

PushPush ==
    /\ push.pc = "push"
    /\ \E out \in CommandOutputs :
        push' = AfterPush(
            [push EXCEPT !.cmds = Append(@, Command("push", <<push.target>>)),
                         !.push_result = out],
            out)
    /\ UNCHANGED <<mainvars, log, logcfg>>

PushReturn ==
    /\ push.pc = "done"
    /\ push' = NoPush
    /\ UNCHANGED <<mainvars, log, logcfg>>

InitPush ==
    /\ log = NoRecord /\ push = NoPush /\ logcfg = NoLogCfg
    /\ platform = "linux" /\ vm = "nonexistent" /\ helper = FALSE
    /\ calls = 0
    /\ call = [p \in Procs |-> IdleFrame]

NextPush ==
    \/ PushBegin \/ PushClassify \/ PushInspect
    \/ PushTag \/ PushPush \/ PushReturn

SpecPush == InitPush /\ [][NextPush]_vars

(* ---------------- log level from SERVER_LOG_LEVEL -------------------- *)
\* str.upper() on one character
ToUpper(c) ==
    IF c \in Lower THEN UpperSeq[CHOOSE i \in 1..Len(LowerSeq) : LowerSeq[i] = c]
    ELSE c

StrUpper(s) == [i \in 1..Len(s) |-> ToUpper(s[i])]

Capitalize(s) == IF s = <<>> THEN s ELSE <<ToUpper(s[1])>> \o Tail(s)

\* the attributes of the logging module: the level constants, the other
\* names that upper() leaves as they are, and some names it does not
LevelAttrs ==
    {[name |-> <<"D", "E", "B", "U", "G">>, kind |-> "int", val |-> 10],
     [name |-> <<"I", "N", "F", "O">>, kind |-> "int", val |-> 20],
     [name |-> <<"W", "A", "R", "N", "I", "N", "G">>, kind |-> "int", val |-> 30],
     [name |-> <<"W", "A", "R", "N">>, kind |-> "int", val |-> 30],
     [name |-> <<"E", "R", "R", "O", "R">>, kind |-> "int", val |-> 40],
     [name |-> <<"C", "R", "I", "T", "I", "C", "A", "L">>, kind |-> "int", val |-> 50],
     [name |-> <<"F", "A", "T", "A", "L">>, kind |-> "int", val |-> 50],
     [name |-> <<"N", "O", "T", "S", "E", "T">>, kind |-> "int", val |-> 0]}

OtherAttrs ==
    {[name |-> <<"B", "A", "S", "I", "C", "_", "F", "O", "R", "M", "A", "T">>, kind |-> "str", val |-> 0],
     [name |-> <<"_", "S", "T", "Y", "L", "E", "S">>, kind |-> "dict", val |-> 0],
     [name |-> <<"L", "o", "g", "g", "e", "r">>, kind |-> "class", val |-> 0],
     [name |-> <<"g", "e", "t", "L", "o", "g", "g", "e", "r">>, kind |-> "function", val |-> 0],
     [name |-> <<"i", "n", "f", "o">>, kind |-> "function", val |-> 0],
     [name |-> <<"d", "e", "b", "u", "g">>, kind |-> "function", val |-> 0]}

LoggingAttrs == LevelAttrs \cup OtherAttrs

hasattr(name) == \E a \in LoggingAttrs : a.name = name

getattr(name) ==
    LET a == CHOOSE a \in LoggingAttrs : a.name = name
    IN  [kind |-> a.kind, val |-> a.val]

LoggingInfo == getattr(<<"I", "N", "F", "O">>)

LevelNames ==
    {<<"d", "e", "b", "u", "g">>,
     <<"i", "n", "f", "o">>,
     <<"w", "a", "r", "n", "i", "n", "g">>,
     <<"w", "a", "r", "n">>,
     <<"e", "r", "r", "o", "r">>,
     <<"c", "r", "i", "t", "i", "c", "a", "l">>,
     <<"f", "a", "t", "a", "l">>,
     <<"n", "o", "t", "s", "e", "t">>}

\* values of SERVER_LOG_LEVEL
EnvValues ==
    LevelNames \cup {StrUpper(n) : n \in LevelNames}
        \cup {Capitalize(n) : n \in LevelNames}
        \cup {<<"v", "e", "r", "b", "o", "s", "e">>,
     <<"t", "r", "a", "c", "e">>,
     <<"1", "0">>,
     <<"b", "a", "s", "i", "c", "_", "f", "o", "r", "m", "a", "t">>,
     <<"B", "A", "S", "I", "C", "_", "F", "O", "R", "M", "A", "T">>,
     <<"_", "s", "t", "y", "l", "e", "s">>,
     <<"l", "o", "g", "g", "e", "r">>,
     <<"g", "e", "t", "l", "o", "g", "g", "e", "r">>,
     <<"i", "n", "f", "o", " ">>,
     <<"l", "o", "g", "g", "i", "n", "g", ".", "D", "E", "B", "U", "G">>,
     <<"B", "a", "s", "i", "c", "_", "F", "o", "r", "m", "a", "t">>,
     <<"5", "0">>,
     <<"o", "f", "f">>,
     <<"n", "o", "n", "e">>,
     <<"a", "l", "l">>,
     <<"w", "a", "r", "n", " ", "i", "n", "g">>,
     <<>>}

\* log_level = logging.INFO
\* server_log_level = os.environ.get('SERVER_LOG_LEVEL', '').upper()
ReadEnv ==
    /\ logcfg.pc = "start"
    /\ \/ \E v \in EnvValues :
            logcfg' = [logcfg EXCEPT !.pc = "read", !.set = TRUE, !.env = v,
                                     !.server_log_level = StrUpper(v),
                                     !.log_level = LoggingInfo]
       \/ logcfg' = [logcfg EXCEPT !.pc = "read",
                                   !.server_log_level = StrUpper(<<>>),
                                   !.log_level = LoggingInfo]
    /\ UNCHANGED <<mainvars, log, push>>

\* if server_log_level and hasattr(logging, server_log_level):
\*     log_level = getattr(logging, server_log_level)
SelectStep(c) ==
    IF c.server_log_level # <<>> /\ hasattr(c.server_log_level)
    THEN [c EXCEPT !.pc = "selected", !.log_level = getattr(c.server_log_level)]
    ELSE [c EXCEPT !.pc = "selected"]

SelectLevel ==
    /\ logcfg.pc = "read"
    /\ logcfg' = SelectStep(logcfg)
    /\ UNCHANGED <<mainvars, log, push>>

\* logging.basicConfig(level=log_level, ...): the root logger's setLevel
\* takes an int (or the name of a level) and raises on anything else
BasicConfigStep(c) ==
    IF c.log_level.kind = "int" THEN [c EXCEPT !.pc = "configured"]
    ELSE IF c.log_level.kind = "str"
    THEN [c EXCEPT !.pc = "crashed", !.error = "ValueError"]
    ELSE [c EXCEPT !.pc = "crashed", !.error = "TypeError"]

BasicConfig ==
    /\ logcfg.pc = "selected"
    /\ logcfg' = BasicConfigStep(logcfg)
    /\ UNCHANGED <<mainvars, log, push>>

(* the server process is started again *)
Restart ==
    /\ logcfg.pc \in {"configured", "crashed"}
    /\ logcfg' = NoLogCfg
    /\ UNCHANGED <<mainvars, log, push>>

InitLevel ==
    /\ log = NoRecord /\ push = NoPush /\ logcfg = NoLogCfg
    /\ platform = "linux" /\ vm = "nonexistent" /\ helper = FALSE
    /\ calls = 0
    /\ call = [p \in Procs |-> IdleFrame]

NextLevel == ReadEnv \/ SelectLevel \/ BasicConfig \/ Restart

SpecLevel == InitLevel /\ [][NextLevel]_vars

(* ------------------------------ claims -------------------------------- *)
Has(s, x) == \E i \in 1..Len(s) : s[i] = x
Count(s, x) == Cardinality({i \in 1..Len(s) : s[i] = x})
Transitions(s) == Count(s, "init") + Count(s, "start")
PostEnsure(f) == f.pc \in {"ensured", "act", "done"}
Acted(f) == f.kind \in Tools /\ Has(f.cmds, ActCmd(f.kind))

\* C1: in a single invocation of the build or push tool, the build / push
\* command is invoked only after ensure_vm_running returned success, and then
\* the backend is available: the host is native, or the VM is Running, either
\* observed running with no transition or just initialized / started by one
\* command that reported success.
C1_VmAvailableBeforeAct ==
    \A p \in Procs : LET f == call[p] IN
        (f.pc = "act" \/ Acted(f)) =>
            /\ f.vm_status.status = "success"
            /\ platform = "linux" \/ vm = "running"
            /\ platform # "linux" =>
                \/ /\ f.status_result.running
                   /\ ~f.status_result.nonexistent /\ ~f.status_result.stopped
                   /\ Transitions(f.cmds) = 0
                \/ f.result.status = "success" /\ Transitions(f.cmds) = 1

C1_Witness ==
    \E p \in Procs : LET f == call[p] IN
        /\ f.pc = "done" /\ f.kind = "push" /\ Has(f.cmds, "push")
        /\ platform = "darwin" /\ f.result.status = "success"
        /\ Has(f.cmds, "init") /\ vm = "running"

\* C2: on a non-native host, a call whose status output carries the
\* nonexistent marker issues exactly one initialize and no start command; one
\* whose output carries the stopped marker (and not the nonexistent one)
\* issues exactly one start and no initialize command; if that command
\* succeeds the call returns success.
C2_OneTransitionPerState ==
    \A p \in Procs : LET f == call[p] IN
        (platform # "linux" /\ PostEnsure(f) /\ f.status_result # NoStatus) =>
            /\ f.status_result.nonexistent =>
                /\ Count(f.cmds, "init") = 1 /\ Count(f.cmds, "start") = 0
                /\ f.result.status = "success" => f.vm_status.status = "success"
            /\ (~f.status_result.nonexistent /\ f.status_result.stopped) =>
                /\ Count(f.cmds, "start") = 1 /\ Count(f.cmds, "init") = 0
                /\ f.result.status = "success" => f.vm_status.status = "success"

C2_Witness ==
    \E p \in Procs : LET f == call[p] IN
        /\ f.pc = "done" /\ f.kind = "ensure" /\ platform # "linux"
        /\ f.status_result.nonexistent /\ f.status_result.stopped
        /\ f.cmds = <<"status", "init">>
        /\ f.result.status = "success" /\ f.vm_status.status = "success"

\* C3: while the VM is Running, every step of ensure_vm_running leaves the
\* VM Running and issues no initialize, start or stop command, and a call
\* whose status query returned ends with success; this holds for every call
\* of a sequence of calls.
C3_IdempotentWhenRunning ==
    [][\A p \in Procs :
        (vm = "running" /\ call[p].pc \in {"ensure", "status", "branch"}) =>
            /\ vm' = "running"
            /\ Transitions(call'[p].cmds) = Transitions(call[p].cmds)
            /\ Count(call'[p].cmds, "stop") = Count(call[p].cmds, "stop")
            /\ (call'[p].pc = "ensured" /\ call'[p].status_result # NoStatus) =>
                    call'[p].vm_status.status = "success"]_vars

C3_Witness ==
    \E p \in Procs : LET f == call[p] IN
        /\ calls >= 2 /\ f.pc = "done" /\ f.kind = "ensure"
        /\ vm = "running" /\ f.cmds = <<"status">>
        /\ f.vm_status = format_result("success", "Finch VM is already running.")

\* C4: when the initialize or start command returns an error result,
\* ensure_vm_running returns exactly that result (status, message and extra
\* fields) and that command is the only transition command of the call.
C4_TransitionFailureVerbatim ==
    \A p \in Procs : LET f == call[p] IN
        f.result.status = "error" =>
            /\ f.vm_status = f.result
            /\ Transitions(f.cmds) = 1
            /\ f.cmds[Len(f.cmds)] \in {"init", "start"}

C4_Witness ==
    \E p \in Procs : LET f == call[p] IN
        /\ f.pc = "done" /\ f.result.status = "error"
        /\ f.result.extra = "stderr" /\ f.vm_status.extra = "stderr"
        /\ Has(f.cmds, "start")

\* C5: when the status output carries none of the nonexistent, stopped or
\* running markers, ensure_vm_running returns an error whose message carries
\* the raw status code, and the status query is the last command it issued.
C5_UnknownIsError ==
    \A p \in Procs : LET f == call[p] IN
        (PostEnsure(f) /\ f.status_result # NoStatus
            /\ ~f.status_result.nonexistent /\ ~f.status_result.stopped
            /\ ~f.status_result.running) =>
            /\ f.vm_status.status = "error"
            /\ f.vm_status.message =
                 "Unknown VM status: status code "
                    \o ToString(f.status_result.returncode)
            /\ Transitions(f.cmds) = 0
            /\ f.cmds[Len(f.cmds)] = "status"

C5_Witness ==
    \E p \in Procs : LET f == call[p] IN
        /\ f.pc = "done" /\ f.kind = "ensure" /\ f.status_result.returncode = 1
        /\ ~f.status_result.nonexistent /\ ~f.status_result.stopped
        /\ ~f.status_result.running
        /\ f.vm_status.message = "Unknown VM status: status code 1"

\* C6: on a native (Linux) host ensure_vm_running returns success at once:
\* no status query and no transition command is ever issued.
C6_NativeShortcut ==
    \A p \in Procs : LET f == call[p] IN
        platform = "linux" =>
            /\ ~Has(f.cmds, "status") /\ Transitions(f.cmds) = 0
            /\ f.status_result = NoStatus
            /\ f.pc \in {"ensured", "act"} =>
                f.vm_status =
                    format_result("success", "No VM operation required on Linux.")
            /\ f.pc \notin {"status", "branch"}

C6_Witness ==
    \E p \in Procs : LET f == call[p] IN
        /\ platform = "linux" /\ f.pc = "done" /\ f.kind = "ensure"
        /\ f.cmds = <<>> /\ f.vm_status.status = "success"

\* C7: if the installation check returns an error, the tool returns that
\* result and nothing else was done: no login configuration, no forced stop,
\* no status query or transition, no build or push.
C7_InstallFailureShortCircuits ==
    \A p \in Procs : LET f == call[p] IN
        f.finch_install_status.status = "error" =>
            /\ f.pc = "done"
            /\ f.ret = [status |-> "error",
                        message |-> f.finch_install_status.message]
            /\ f.cmds = <<"install">>
            /\ f.config_result = NoConfig /\ f.stop_result = NoResult
            /\ f.status_result = NoStatus /\ f.vm_status = NoResult

C7_Witness ==
    \E p \in Procs : LET f == call[p] IN
        /\ f.kind = "build" /\ f.ecr /\ f.pc = "done"
        /\ f.finch_install_status.status = "error"
        /\ f.ret.message = "install failed"

\* C8: if ensure_vm_running returns an error, the tool returns a result with
\* the same status and message and never invokes the build or push.
C8_EnsureErrorPropagates ==
    \A p \in Procs : LET f == call[p] IN
        (f.kind \in Tools /\ f.vm_status.status = "error") =>
            /\ f.pc \in {"ensured", "done"}
            /\ f.pc = "done" =>
                /\ f.ret.status = f.vm_status.status
                /\ f.ret.message = f.vm_status.message
            /\ ~Acted(f)

C8_Witness ==
    \E p \in Procs : LET f == call[p] IN
        /\ f.kind = "push" /\ f.pc = "done"
        /\ f.vm_status.message = "Unknown VM status: status code 0"
        /\ f.ret = [status |-> "error",
                    message |-> "Unknown VM status: status code 0"]
\* C9: a login configuration that returns an Error result is fatal for the
\* whole operation: the tool returns Error, and neither the VM is ensured nor
\* the build / push invoked.
C9_ConfigFailureFatal ==
    \A p \in Procs : LET f == call[p] IN
        f.config_result.status = "error" =>
            /\ f.pc = "done"
            /\ f.ret.status = "error"
            /\ f.vm_status = NoResult /\ ~Has(f.cmds, "status")
            /\ ~Acted(f)

\* What the code does instead: the Error result of the configuration is read
\* only for its 'changed' key, and the invocation goes on to ensure the VM.
C9_ConfigFailureIgnored ==
    \E p \in Procs : LET f == call[p] IN
        /\ f.config_result.status = "error" /\ f.pc = "done"
        /\ f.ret.status = "success" /\ Acted(f)

\* An initialize or start command lies between the forced stop and the
\* build / push command.
RestartedBeforeAct(f) ==
    \E i, j, k \in 1..Len(f.cmds) :
        /\ i < j /\ j < k
        /\ f.cmds[i] = "stop"
        /\ f.cmds[j] \in {"init", "start"}
        /\ f.cmds[k] = ActCmd(f.kind)

\* C10 as stated: whenever the configuration reported changed=true and the
\* invocation went on to build / push, an initialize or start command was
\* issued after the stop and before the build / push, whatever the VM state
\* and the outcome of the stop.
C10_AlwaysRestarted ==
    \A p \in Procs : LET f == call[p] IN
        (f.changed /\ Acted(f)) => RestartedBeforeAct(f)

\* C10 amended: when the configuration reported changed=true a forced stop
\* is issued before ensure_vm_running and its result is ignored; on a
\* non-native host, if the stop succeeded, an initialize or start command is
\* issued after the stop and before the build / push; on a native host, or
\* when the stop failed and the VM is still observed running, the build /
\* push is invoked with no initialize or start command.
C10_RestartedWhenStopped ==
    \A p \in Procs : LET f == call[p] IN
        f.changed =>
            /\ f.pc # "stop" => Count(f.cmds, "stop") = 1
            /\ (f.pc # "stop" /\ f.pc # "done") => f.stop_result # NoResult
            /\ Has(f.cmds, "status") =>
                \E i, j \in 1..Len(f.cmds) :
                    i < j /\ f.cmds[i] = "stop" /\ f.cmds[j] = "status"
            /\ (Acted(f) /\ platform # "linux"
                    /\ f.stop_result.status = "success") =>
                RestartedBeforeAct(f)
            /\ (Acted(f) /\ (platform = "linux"
                    \/ (f.stop_result.status = "error"
                        /\ VmBranch(f.status_result) = "noop"))) =>
                Transitions(f.cmds) = 0

C10_Witness ==
    \E p \in Procs : LET f == call[p] IN
        /\ f.kind = "push" /\ f.changed /\ f.pc = "done"
        /\ f.stop_result.status = "success"
        /\ f.cmds = <<"install", "configure", "stop", "status", "start", "push">>
\* The result handed to the caller of a finished invocation.
Returned(f) == IF f.kind = "ensure" THEN Result(f.vm_status) ELSE f.ret

FaultPrefixes ==
    {ErrPrefix(k) : k \in Kinds \ {"ensure"}}
        \cup {"Error ensuring Finch VM is running: "}

\* C11: no tool raises past its boundary: every finished invocation of
\* build, push, create-repo or ensure_vm_running has returned a result whose
\* status is success or error; when a step raised a fault, that result is an
\* error whose message is non-empty and ends with the fault's message.
C11_NeverRaises ==
    \A p \in Procs : LET f == call[p] IN
        f.pc = "done" =>
            /\ Returned(f).status \in {"success", "error"}
            /\ f.e # "" =>
                /\ Returned(f).status = "error"
                /\ Returned(f).message # ""
                /\ \E pre \in FaultPrefixes : Returned(f).message = pre \o f.e

C11_Witness ==
    \E p \in Procs :
        /\ call[p].pc = "done" /\ call[p].kind = "create" /\ call[p].e = "oops"
        /\ call[p].ret.message = "Error checking/creating ECR repository: oops"
Contains(s, w) == \E i \in 1..(Len(s) + 1) : StartsAt(s, i, w)

\* The bounded 20-character uppercase-alphanumeric tokens of a text.
BoundedKeys(s) ==
    {SubSeq(s, i, i + AccessKeyLen - 1) :
        i \in {j \in 1..Len(s) : TokenAt(s, j, UpperAlnum, AccessKeyLen)}}

KeyRedacted(before, after) ==
    before.type = "str" =>
        \A t \in BoundedKeys(before.val) :
            Contains(after.val, AccessKeyMarker) /\ ~Contains(after.val, t)

\* C12: a filtered record that held a bounded 20-character
\* uppercase-alphanumeric token holds the credential-id marker in its place
\* and no longer the token, in the message text and in every string
\* positional argument.
C12_TokenRedacted ==
    log.phase = "filtered" =>
        /\ KeyRedacted(log.in_msg, log.msg)
        /\ \A i \in 1..Len(log.in_args) : KeyRedacted(log.in_args[i], log.args[i])

\* The part of C12 the code keeps: the token never survives in the message.
C12_MsgTokenGone ==
    (log.phase = "filtered" /\ log.in_msg.type = "str") =>
        \A t \in BoundedKeys(log.in_msg.val) : ~Contains(log.msg.val, t)

\* The token passed as a positional argument leaves the filter unchanged.
C12_ArgTokenSurvives ==
    /\ log.phase = "filtered" /\ Len(log.args) = 1
    /\ log.in_args[1] = Str(ExampleAccessKey)
    /\ log.args[1] = Str(ExampleAccessKey)

\* The reference ref is base, or base followed by ':' and a tag that holds
\* no '/' and no ':'.
Untagged(ref, base) ==
    \/ /\ base = ref
       /\ \A k \in 1..Len(ref) :
            ref[k] = ":" => \E j \in (k + 1)..Len(ref) : ref[j] = "/"
    \/ \E k \in 1..Len(ref) :
        /\ ref[k] = ":" /\ k < Len(ref)
        /\ base = SubSeq(ref, 1, k - 1)
        /\ \A j \in (k + 1)..Len(ref) : ref[j] \notin {":", "/"}

PushSucceeded == push.pc = "done" /\ push.result.status = "success"

\* C13: for every image reference and every hash sha256:<hex>, a successful
\* push_image issues, once it has the hash, exactly two commands: tag from the
\* original reference to the target, then push of the target, the target
\* being the reference without its tag, ':' and the first 12 hex characters
\* of the hash; the result is success.
C13_TagThenPush ==
    (PushSucceeded /\ StartsAt(push.hash, 1, Sha256Prefix)) =>
        \E n \in 0..Len(push.image) :
            LET base == SubSeq(push.image, 1, n)
                target == base \o <<":">>
                               \o SubSeq(push.hash, Len(Sha256Prefix) + 1,
                                         Len(Sha256Prefix) + HashLen)
            IN  /\ Untagged(push.image, base)
                /\ Tail(push.cmds) =
                     <<Command("tag", <<push.image, target>>),
                       Command("push", <<target>>)>>

C13_Witness ==
    /\ PushSucceeded
    /\ push.image = <<"m", "y", "r", "e", "p", "o", ":", "l", "a", "t", "e", "s", "t">>
    /\ push.cmds[3] = Command("push", <<<<"m", "y", "r", "e", "p", "o", ":", "1", "2", "3", "4", "5", "6", "7",    "8", "9", "0", "a", "b">>>>)

C13_WitnessNoTag ==
    /\ PushSucceeded
    /\ push.image = <<"l", "o", "c", "a", "l", "h", "o", "s", "t", ":", "5", "0", "0", "0",    "/", "r", "e", "p", "o">>
    /\ push.cmds[3] = Command("push", <<<<"l", "o", "c", "a", "l", "h", "o", "s", "t", ":", "5", "0", "0", "0",    "/", "r", "e", "p", "o", ":", "1", "2", "3", "4", "5", "6", "7",    "8", "9", "0", "a", "b">>>>)

HashFailed ==
    /\ push.pc \notin {"none", "classify", "inspect"}
    /\ \/ push.inspect.returncode # 0
       \/ ~push.inspect.has_id
       \/ push.inspect.id = <<>>

\* C14: when the inspect command exits non-zero, or its output holds no
\* non-empty Id, push_image returns an error that describes the hash failure
\* and has issued no tag command and no push command.
C14_HashFailureStops ==
    HashFailed =>
        /\ push.pc = "done"
        /\ push.result.status = "error"
        /\ push.result.message \in
             {"Failed to get hash for image",
              "Could not find hash in image inspect output"}
        /\ push.cmds = <<Command("inspect", <<push.image>>)>>

C14_Witness ==
    /\ HashFailed
    /\ push.inspect.returncode = 0 /\ push.inspect.has_id
    /\ push.result.message = "Could not find hash in image inspect output"

\* The references made of a 12-digit account, .dkr.ecr., a region
\* <letters>-<letters>-<digit>, .amazonaws.com, '/', a path and a tag or none.
WellFormedRefs ==
    {a \o EcrSegment \o r \o AwsDomain \o <<"/">> \o q \o t :
        a \in {x \in Accounts : Len(x) = AccountLen},
        r \in {<<"u", "s", "-", "w", "e", "s", "t", "-", "2">>,
               <<"a", "p", "-", "s", "o", "u", "t", "h", "e", "a", "s", "t", "-", "2">>},
        q \in Paths, t \in Tags}

Classified == push.pc \notin {"none", "classify"}

\* C15: is_ecr_repository is true for every reference <12 digits>.dkr.ecr.
\* <letters>-<letters>-<digit>.amazonaws.com/<path>[:tag] and false for every
\* reference with a wrong account length, without dkr, with a malformed region
\* or with another domain.
C15_EcrShape ==
    Classified => (push.is_ecr <=> push.image \in WellFormedRefs)

C15_Witness ==
    /\ Classified /\ push.is_ecr
    /\ push.image =
        <<"1", "2", "3", "4", "5", "6", "7", "8", "9", "0", "1", "2", ".", "d",
          "k", "r", ".", "e", "c", "r", ".", "a", "p", "-", "s", "o", "u",
          "t", "h", "e", "a", "s", "t", "-", "2", ".", "a", "m", "a", "z",
          "o", "n", "a", "w", "s", ".", "c", "o", "m", "/", "m", "y", "-",
          "r", "e", "p", "o", "/", "n", "e", "s", "t", "e", "d", ":", "1",
          ".", "0", ".", "0">>

C15_WitnessRejected ==
    /\ Classified /\ ~push.is_ecr
    /\ push.image =
        <<"1", "2", "3", "4", "5", "6", "7", "8", "9", "0", "1", "2", ".", "d",
          "k", "r", ".", "e", "c", "r", ".", "i", "n", "v", "a", "l", "i",
          "d", "-", "r", "e", "g", "i", "o", "n", ".", "a", "m", "a", "z",
          "o", "n", "a", "w", "s", ".", "c", "o", "m", "/", "m", "y", "r",
          "e", "p", "o", ":", "l", "a", "t", "e", "s", "t">>

ObservedStopped(f) == VmBranch(f.status_result) = "start"

\* C16: nothing makes the VM transitions of two concurrent callers exclusive:
\* a caller is admitted whatever the other caller is doing, and a caller that
\* observed the VM stopped issues start whatever has happened since; so both
\* can observe Stopped and both issue start.
C16_NoMutualExclusion ==
    \A p \in Procs :
        /\ (call[p].pc = "idle" /\ calls < Cardinality(Procs)) => ENABLED InvokeConc(p)
        /\ (call[p].pc = "branch" /\ ObservedStopped(call[p]))
                => ENABLED EnsureStart(p)

\* Both callers observed Stopped and both issued start: the first start
\* succeeded, and the second caller, whose observation is older, started too.
C16_Witness ==
    /\ \A p \in Procs :
        /\ call[p].kind = "ensure"
        /\ ObservedStopped(call[p])
        /\ Has(call[p].cmds, "start")
        /\ call[p].result.status = "success"
    /\ vm = "running"

\* Both callers are between their status query and their start command.
C16_WitnessBothObserved ==
    \A p \in Procs : call[p].pc = "branch" /\ ObservedStopped(call[p])

Commands ==
    {"install", "configure", "stop", "status", "init", "start",
     "build", "push", "create_repo"}

\* C17: no operation is retried: in one invocation the installation check,
\* the login configuration, the forced stop, the status query, initialize,
\* start and build / push are each issued at most once, whatever the commands
\* return, and at most one of initialize and start is issued.
C17_NoRetry ==
    \A p \in Procs : LET f == call[p] IN
        /\ \A c \in Commands : Count(f.cmds, c) <= 1
        /\ Transitions(f.cmds) <= 1
        /\ \A i \in 1..Len(f.cmds) : f.cmds[i] \in Commands

\* A status query failed, the initialize that followed too, and nothing was
\* issued again.
C17_Witness ==
    \E p \in Procs : LET f == call[p] IN
        /\ f.pc = "done" /\ f.kind = "build"
        /\ f.cmds = <<"install", "configure", "stop", "status", "init">>
        /\ f.result.status = "error" /\ f.ret.status = "error"

Rank(c) ==
    CASE c = "install" -> 1
      [] c = "configure" -> 3
      [] c = "stop" -> 4
      [] c \in {"status", "init", "start"} -> 5
      [] OTHER -> 6

PastConfigure(f) ==
    f.pc \in {"stop", "ensure", "status", "branch", "ensured", "act", "done"}

PastStop(f) == f.pc \in {"ensure", "status", "branch", "ensured", "act", "done"}

ReportedChanged(f) == f.config_result.has_changed /\ f.config_result.changed

\* C18: in every build / push invocation the steps come in the order
\* installation check, classification, login configuration, forced stop,
\* ensure-VM, build / push; login is configured iff the target was classified
\* as a managed-registry reference; the VM is force-stopped iff that
\* configuration reported changed = true, and before the status query.
C18_StepOrder ==
    \A p \in Procs : LET f == call[p] IN
        f.kind \in Tools =>
            /\ \A i, j \in 1..Len(f.cmds) :
                    i < j => Rank(f.cmds[i]) < Rank(f.cmds[j])
                                \/ (f.cmds[i] = "status" /\ Rank(f.cmds[j]) = 5)
            /\ f.pc = "classify" => f.cmds = <<"install">>
            /\ f.pc = "configure" => f.is_ecr
            /\ PastConfigure(f) => (Has(f.cmds, "configure") <=> f.is_ecr)
            /\ PastStop(f) => (Has(f.cmds, "stop") <=> ReportedChanged(f))
            /\ f.pc = "stop" => (ReportedChanged(f) /\ ~Has(f.cmds, "status"))

C18_Witness ==
    \E p \in Procs : LET f == call[p] IN
        /\ f.pc = "done" /\ f.kind = "push" /\ f.is_ecr /\ ReportedChanged(f)
        /\ f.cmds = <<"install", "configure", "stop", "status", "start", "push">>
        /\ f.ret.status = "success"

C18_WitnessUnchanged ==
    \E p \in Procs : LET f == call[p] IN
        /\ f.pc = "done" /\ f.kind = "build" /\ f.is_ecr /\ ~ReportedChanged(f)
        /\ f.cmds = <<"install", "configure", "status", "build">>

BetweenInvocations == \A p \in Procs : call[p].pc = "idle"

NoForcedStop ==
    \A p \in Procs : ~call[p].changed /\ ~Has(call[p].cmds, "stop")

\* C19: the credential-helper entry never being removed, only the
\* configuration that writes it reports changed = true: a forced stop is
\* issued only by the invocation that wrote the entry, and once the entry is
\* there no later invocation reports changed = true or stops the VM.
C19_ChangedOnce ==
    /\ [](\A p \in Procs : Has(call[p].cmds, "stop") =>
                (helper /\ call[p].changed
                    /\ call[p].config_result.status = "success"))
    /\ []((helper /\ BetweenInvocations) => []NoForcedStop)

\* A second configuration succeeded, unchanged, and the VM kept running.
C19_Witness ==
    \E p \in Procs : LET f == call[p] IN
        /\ calls >= 2 /\ helper /\ platform # "linux"
        /\ f.pc = "done" /\ f.kind \in Tools /\ f.is_ecr
        /\ f.config_result.status = "success" /\ ~f.changed
        /\ f.cmds = <<"install", "configure", "status", ActCmd(f.kind)>>
        /\ f.ret.status = "success" /\ vm = "running"

Branches == {"init", "start", "noop", "unknown"}

\* the branch of ensure_vm_running that the step from f to g took
Taken(f, g, b) ==
    CASE b = "init" -> g.cmds = Append(f.cmds, "init")
      [] b = "start" -> g.cmds = Append(f.cmds, "start")
      [] b = "noop" ->
            /\ g.cmds = f.cmds
            /\ g.vm_status = format_result("success", "Finch VM is already running.")
      [] OTHER ->
            /\ g.cmds = f.cmds
            /\ g.vm_status.status = "error"

\* C20: the status output is classified with a fixed precedence, nonexistent
\* before stopped before running: an output with the nonexistent marker leads
\* to initialize even with the other markers, one with the stopped marker and
\* without the nonexistent one leads to start even with the running marker;
\* each call takes exactly one of initialize, start, no-op and Unknown error.
C20_Precedence ==
    [][\A p \in Procs :
        (call[p].pc = "branch" /\ call'[p].pc # "branch") =>
            LET f == call[p]
                g == call'[p]
                s == f.status_result
                want == IF s.nonexistent THEN "init"
                        ELSE IF s.stopped THEN "start"
                        ELSE IF s.running THEN "noop"
                        ELSE "unknown"
            IN  /\ Taken(f, g, want)
                /\ \A b \in Branches \ {want} : ~Taken(f, g, b)
                /\ g.pc = "ensured"]_vars

C20_Witness ==
    \E p \in Procs : LET f == call[p] IN
        /\ f.pc = "done" /\ f.kind = "ensure"
        /\ ~f.status_result.nonexistent
        /\ f.status_result.stopped /\ f.status_result.running
        /\ f.cmds = <<"status", "start">>

Failed(out) == out.returncode > 0

TagThenPush ==
    <<Command("tag", <<push.image, push.target>>),
      Command("push", <<push.target>>)>>

\* C21: push_image issues the push command only after the tag command
\* succeeded: a failed tag ends push_image with an error and no push command;
\* a failed push after a successful tag ends it with an error after exactly
\* the two commands tag (original to target) and push (target).
C21_PushOnlyAfterTag ==
    /\ (\E i \in 1..Len(push.cmds) : push.cmds[i].cmd = "push")
            => push.tag_result.returncode = 0
    /\ Failed(push.tag_result) =>
            /\ push.pc = "done"
            /\ push.result = [status |-> "error",
                              message |-> "Failed to tag image with hash",
                              stderr |-> push.tag_result.stderr]
            /\ Tail(push.cmds) = <<Command("tag", <<push.image, push.target>>)>>
    /\ Failed(push.push_result) =>
            /\ push.pc = "done"
            /\ push.tag_result.returncode = 0
            /\ push.result = [status |-> "error",
                              message |-> "Failed to push image",
                              stderr |-> push.push_result.stderr]
            /\ Tail(push.cmds) = TagThenPush

C21_Witness ==
    /\ Failed(push.push_result)
    /\ push.result.status = "error"
    /\ Len(push.cmds) = 3 /\ push.cmds[3].cmd = "push"

C21_WitnessTagFailed ==
    /\ Failed(push.tag_result)
    /\ push.result.status = "error"
    /\ Len(push.cmds) = 2 /\ push.cmds[2].cmd = "tag"

\* The bounded 40-character base64-alphabet tokens of a text.
BoundedSecrets(s) ==
    {SubSeq(s, i, i + SecretKeyLen - 1) :
        i \in {j \in 1..Len(s) : TokenAt(s, j, Base64, SecretKeyLen)}}

\* The pieces of a token: its quarters, wherever they start.
Pieces(t) ==
    {SubSeq(t, i, i + (Len(t) \div 4) - 1) : i \in 1..(Len(t) - (Len(t) \div 4) + 1)}

NoPieceLeft(t, after) == \A w \in Pieces(t) : ~Contains(after, w)

\* C22: a filtered message that held a bounded 40-character base64-alphabet
\* token holds the credential-secret marker and no piece of the token,
\* whatever the token is made of.
C22_SecretRedacted ==
    (log.phase = "filtered" /\ log.in_msg.type = "str") =>
        \A t \in BoundedSecrets(log.in_msg.val) :
            /\ Contains(log.msg.val, SecretKeyMarker)
            /\ NoPieceLeft(t, log.msg.val)

\* What the code keeps: a secret without a bounded run of 20 uppercase letters
\* and digits leaves no piece in the filtered message.
C22_PlainSecretGone ==
    (log.phase = "filtered" /\ log.in_msg.type = "str") =>
        \A t \in BoundedSecrets(log.in_msg.val) :
            BoundedKeys(t) = {} => NoPieceLeft(t, log.msg.val)

\* The secret with the 20-character run leaves the filter with both ends intact.
C22_SecretLeaks ==
    /\ log.phase = "filtered"
    /\ log.in_msg = Str(MixedSecretKey)
    /\ log.msg = Str(SubSeq(MixedSecretKey, 1, 10) \o AccessKeyMarker
                        \o SubSeq(MixedSecretKey, 31, 40))

MatchesNone(s) == \A k \in 1..NumPatterns : ApplyPattern(k, s) = s

Untouched(before, after) ==
    (before.type # "str" \/ MatchesNone(before.val)) => after = before

\* C23: the filter returns True for every record and keeps the shape of its
\* arguments: as many arguments, in the same order, of the same kind, every
\* non-string argument and every string that matches no pattern unchanged.
C23_ShapeKept ==
    log.phase = "filtered" =>
        /\ log.ret = TRUE
        /\ log.mapping = log.in_mapping /\ log.vals = log.in_vals
        /\ Len(log.args) = Len(log.in_args)
        /\ \A i \in 1..Len(log.in_args) : Untouched(log.in_args[i], log.args[i])
        /\ Untouched(log.in_msg, log.msg)

\* What the code keeps: C23 for records whose arguments are positional.
C23_TupleShapeKept ==
    (log.phase = "filtered" /\ ~log.in_mapping) =>
        /\ log.ret = TRUE
        /\ ~log.mapping /\ log.vals = <<>>
        /\ Len(log.args) = Len(log.in_args)
        /\ \A i \in 1..Len(log.in_args) : Untouched(log.in_args[i], log.args[i])
        /\ Untouched(log.in_msg, log.msg)

\* A mapping of two entries leaves the filter as the tuple of its keys.
C23_MappingLost ==
    /\ log.phase = "filtered" /\ log.ret = TRUE
    /\ log.in_mapping /\ Len(log.in_vals) = 2
    /\ ~log.mapping /\ log.vals = <<>>
    /\ log.args = log.in_args

LevelValues == {a.val : a \in LevelAttrs}

NamesLevel(v) == \E a \in LevelAttrs : a.name = StrUpper(v)

Selected == logcfg.pc \in {"selected", "configured", "crashed"}

\* C24: a value of the variable that names a log level selects that level;
\* every other value, the empty one and the names of other attributes of the
\* logging module included, falls back to INFO without an error, so the
\* selected level is always a log level.
C24_LevelOrInfo ==
    Selected =>
        /\ logcfg.log_level.kind = "int"
        /\ logcfg.log_level.val \in LevelValues
        /\ logcfg.log_level =
                IF NamesLevel(logcfg.env) THEN getattr(StrUpper(logcfg.env))
                ELSE LoggingInfo
        /\ logcfg.pc # "crashed"

\* What the code keeps: a value whose upper case is not the name of another
\* attribute of the logging module selects its level, or INFO.
C24_LevelUnlessAttribute ==
    (Selected /\ ~\E a \in OtherAttrs : a.name = StrUpper(logcfg.env)) =>
        /\ logcfg.log_level.kind = "int"
        /\ logcfg.log_level =
                IF NamesLevel(logcfg.env) THEN getattr(StrUpper(logcfg.env))
                ELSE LoggingInfo
        /\ logcfg.pc # "crashed"

\* SERVER_LOG_LEVEL=basic_format selects a format string and the logging
\* set-up raises.
C24_AttributeSelected ==
    /\ logcfg.pc = "crashed" /\ logcfg.error = "ValueError"
    /\ logcfg.env = <<"b", "a", "s", "i", "c", "_", "f", "o", "r", "m", "a", "t">>
    /\ logcfg.log_level.kind = "str"
====
